---- MODULE Spec2Model ----
(***************************************************************************)
(* Model of the external API v2 webhook listing endpoint                   *)
(* (packages/api/src/routers/external-api/v2/webhooks.ts) and of the       *)
(* dismissible banner of the page layout (packages/app/src/layout.tsx).    *)
(***************************************************************************)
EXTENDS Integers, Sequences, FiniteSets, TLC

VARIABLES
  db,     \* the Webhook collection, in storage's natural retrieval order
  log,    \* entries written with logger.error, oldest first
  req,    \* the GET /api/v2/webhooks request being served
  fmt,    \* one document and the results of formatExternalWebhook on it
  localStorage,         \* the value under 'clickstack-banner-state'
  ui,                   \* the PageWrapper instance and what it rendered
  IS_CLICKHOUSE_BUILD   \* the build flag of @/config

layoutVars == <<localStorage, ui, IS_CLICKHOUSE_BUILD>>
vars == <<db, log, req, fmt, localStorage, ui, IS_CLICKHOUSE_BUILD>>

(***************************************************************************)
(* Bounds                                                                  *)
(***************************************************************************)
MaxDocs == 3      \* documents in the collection
MaxLog == 2       \* logger.error entries kept
MaxCalls == 2     \* invocations of the formatter on the same document
MaxMounts == 3    \* times the layout is mounted

(***************************************************************************)
(* Values.  Every value carries its runtime type t, a scalar payload s and *)
(* a set m of <<key, value>> string pairs (the entries of a Map/object).   *)
(***************************************************************************)
Val(t, s, m) == [t |-> t, s |-> s, m |-> m]
Str(s) == Val("String", s, {})
ObjectId(s) == Val("ObjectId", s, {})
Date(s) == Val("Date", s, {})
MapOf(m) == Val("Map", "", m)
Obj(m) == Val("Object", "", m)
Num(s) == Val("Number", s, {})
Null == Val("Null", "", {})

Restrict(f, S) == [k \in (DOMAIN f) \cap S |-> f[k]]

EmptyObject == [k \in {} |-> Null]

(***************************************************************************)
(* Stored documents                                                        *)
(***************************************************************************)
Teams == {"teamA", "teamB"}
Slack == "slack"
IncidentIO == "incidentio"
Generic == "generic"
WebhookService == {Slack, IncidentIO, Generic}
\* a service value stored by schema drift that no variant declares
UnknownService == "pagerduty"

StoredKeys ==
  {"_id", "team", "name", "service", "url", "description", "headers", "body",
   "createdAt", "updatedAt", "__v"}
OptionalStoredKeys == {"url", "description", "headers", "body"}
RequiredStoredKeys == {"_id", "name", "service", "createdAt", "updatedAt"}
DroppableKeys == RequiredStoredKeys \cup OptionalStoredKeys

\* The document Webhook.create stores when every path is given.
FullDoc(id, team, service) ==
  [k \in StoredKeys |->
     CASE k = "_id" -> ObjectId(id)
       [] k = "team" -> ObjectId(team)
       [] k = "name" -> Str("Test Webhook")
       [] k = "service" -> Str(service)
       [] k = "url" -> Str("https://example.com/webhook")
       [] k = "description" -> Str("Test webhook")
       [] k = "headers" -> MapOf({<<"X-Secret", "secret">>})
       [] k = "body" -> Str("{{title}}")
       [] k = "createdAt" -> Date("2024-01-01T00:00:00.000Z")
       [] k = "updatedAt" -> Date("2024-01-02T00:00:00.000Z")
       [] OTHER -> Num("0")]

\* A stored document: FullDoc without the paths in missing.
Doc(id, team, service, missing) ==
  Restrict(FullDoc(id, team, service), StoredKeys \ missing)

\* Every document shape: any subset of the droppable paths may be absent.
AllDocs ==
  {Doc("id1", team, service, missing) :
     team \in Teams,
     service \in WebhookService \cup {UnknownService},
     missing \in SUBSET DroppableKeys}

(***************************************************************************)
(* webhook.toJSON({ getters: true }) and the JSON round trip               *)
(***************************************************************************)
\* The id virtual: the hex string of _id, null when the document has none.
idGetter(webhook) ==
  IF "_id" \in DOMAIN webhook /\ webhook["_id"].t = "ObjectId"
  THEN Str(webhook["_id"].s)
  ELSE Null

toJSONNullsAbsent(webhook) ==
  [k \in (DOMAIN webhook) \cup {"id"} \cup OptionalStoredKeys |->
     IF k = "id" THEN idGetter(webhook)
     ELSE IF k \notin DOMAIN webhook THEN Null
     ELSE IF webhook[k].t = "Map" THEN Obj(webhook[k].m)
     ELSE webhook[k]]

toJSON(webhook) ==
  [k \in (DOMAIN webhook) \cup {"id"} |->
     IF k = "id" THEN idGetter(webhook)
     ELSE IF webhook[k].t = "Map" THEN Obj(webhook[k].m)
     ELSE webhook[k]]

\* JSON.parse(JSON.stringify(v)) of one value: ObjectIds and Dates become
\* strings, strings, numbers, objects and null stay what they are.
JSONValue(v) ==
  CASE v.t = "ObjectId" -> Str(v.s)
    [] v.t = "Date" -> Str(v.s)
    [] v.t = "Map" -> Obj(v.m)
    [] OTHER -> v

JSONRoundTrip(o) == [k \in DOMAIN o |-> JSONValue(o[k])]

(***************************************************************************)
(* externalWebhookSchema: a union discriminated by service                 *)
(***************************************************************************)
BaseRequired == {"id", "name", "service", "createdAt", "updatedAt"}
BaseOptional == {"url", "description"}

SlackWebhook == [required |-> BaseRequired, optional |-> BaseOptional]
IncidentIOWebhook == [required |-> BaseRequired, optional |-> BaseOptional]
GenericWebhook ==
  [required |-> BaseRequired, optional |-> BaseOptional \cup {"headers", "body"}]

externalWebhookSchema ==
  [s \in WebhookService |->
     CASE s = Slack -> SlackWebhook
       [] s = IncidentIO -> IncidentIOWebhook
       [] OTHER -> GenericWebhook]

\* The type each declared property must have.
PropertyType(k) == IF k = "headers" THEN "Object" ELSE "String"

\* safeParse: picks the variant by the discriminator, requires every required
\* property, type-checks every declared property that is present and strips
\* the undeclared ones.
safeParse(schema, input) ==
  IF ~("service" \in DOMAIN input
       /\ input["service"].t = "String"
       /\ input["service"].s \in DOMAIN schema)
  THEN [success |-> FALSE, data |-> EmptyObject]
  ELSE
    LET variant == schema[input["service"].s]
        declared == variant.required \cup variant.optional
    IN IF /\ variant.required \subseteq DOMAIN input
          /\ \A k \in declared \cap DOMAIN input : input[k].t = PropertyType(k)
       THEN [success |-> TRUE, data |-> Restrict(input, declared)]
       ELSE [success |-> FALSE, data |-> EmptyObject]

(***************************************************************************)
(* formatExternalWebhook                                                   *)
(***************************************************************************)
\* The result: defined is FALSE for undefined.
undefined == [defined |-> FALSE, data |-> EmptyObject]

formatExternalWebhookLeak(webhook) ==
  [defined |-> TRUE, data |-> JSONRoundTrip(toJSON(webhook))]

formatExternalWebhookUnparsed(webhook) ==
  LET json == JSONRoundTrip(toJSON(webhook))
      parseResult == safeParse(externalWebhookSchema, json)
  IN IF parseResult.success
     THEN [defined |-> TRUE, data |-> json]
     ELSE undefined

formatExternalWebhookStateful(webhook) ==
  LET json == JSONRoundTrip(toJSON(webhook))
      parseResult == safeParse(externalWebhookSchema, json)
  IN IF parseResult.success /\ log = <<>>
     THEN [defined |-> TRUE, data |-> parseResult.data]
     ELSE undefined

formatExternalWebhook(webhook) ==
  LET json == JSONRoundTrip(toJSON(webhook))
      parseResult == safeParse(externalWebhookSchema, json)
  IN IF parseResult.success
     THEN [defined |-> TRUE, data |-> parseResult.data]
     ELSE undefined

\* What logger.error receives when parsing fails (lines 21-24).
loggerError(webhook) ==
  IF formatExternalWebhook(webhook).defined THEN <<>> ELSE <<webhook>>

(***************************************************************************)
(* The collection.  Webhook.create appends a document with a fresh _id;    *)
(* documents written by older code or by migrations may lack paths or      *)
(* carry a service no variant declares.                                    *)
(***************************************************************************)
Ids == <<"id1", "id2", "id3", "id4", "id5">>

\* <<service, missing paths>> of the documents the teams store: valid ones
\* with every optional path populated, one per missing required path, and
\* one with an undeclared service.
PoolShapes ==
  {<<Slack, {}>>, <<Generic, {}>>}
  \cup {<<Slack, {k}>> : k \in RequiredStoredKeys}
  \cup {<<UnknownService, {}>>}

\* teamB, the team that is not asking in most runs, stores a valid and a
\* malformed document.
ShapesOf(team) ==
  IF team = "teamA" THEN PoolShapes
  ELSE {<<Slack, {}>>, <<Slack, {"name"}>>}

WebhookCreate ==
  /\ Len(db) < MaxDocs
  /\ \E team \in Teams : \E shape \in ShapesOf(team) :
       db' = Append(db, Doc(Ids[Len(db) + 1], team, shape[1], shape[2]))
  /\ UNCHANGED <<log, req, fmt, layoutVars>>

(***************************************************************************)
(* Authentication (middleware in front of the router)                      *)
(***************************************************************************)
\* req.user?.team of a user without a team
NoTeam == Null
\* access key -> the team (an ObjectId) of the user it identifies
Users ==
  [keyA |-> ObjectId("teamA"), keyB |-> ObjectId("teamB"), keyNoTeam |-> NoTeam]
Credentials == DOMAIN Users \cup {"missing", "invalid"}

NoRequest ==
  [pc |-> "idle", cred |-> "missing", team |-> NoTeam, status |-> 0,
   sent |-> 0, hasData |-> FALSE,
   data |-> <<>>, nextCalls |-> 0, queries |-> 0, webhooks |-> <<>>]

\* A request arrives: 401 without a valid access key, otherwise req.user is
\* set and the route handler runs next.
Authenticate ==
  /\ req.pc \in {"idle", "done"}
  /\ \E cred \in Credentials :
       IF cred \in DOMAIN Users
       THEN req' = [NoRequest EXCEPT !.pc = "handler", !.cred = cred,
                                     !.team = Users[cred]]
       ELSE req' = [NoRequest EXCEPT !.pc = "done", !.cred = cred,
                                     !.status = 401, !.sent = 1]
  /\ UNCHANGED <<db, log, fmt, layoutVars>>

(***************************************************************************)
(* router.get('/')                                                         *)
(***************************************************************************)
\* teamId.toString(): the hex string of the ObjectId
toString(teamId) == teamId.s

\* Webhook.find({ team }): the filter string is cast to an ObjectId and
\* compared with the stored team; documents keep their stored order.
MatchesTeam(doc, team) ==
  "team" \in DOMAIN doc /\ doc["team"] = ObjectId(team)

FindAllTeams(team) == db

Find(team) == SelectSeq(db, LAMBDA doc : MatchesTeam(doc, team))

MapFilterKeepsUndefined(webhooks) ==
  [i \in 1..Len(webhooks) |-> formatExternalWebhook(webhooks[i]).data]

MapFilterReversed(webhooks) ==
  LET mapped == [i \in 1..Len(webhooks) |-> formatExternalWebhook(webhooks[i])]
      filtered == SelectSeq(mapped, LAMBDA s : s # undefined)
  IN [i \in 1..Len(filtered) |-> filtered[Len(filtered) + 1 - i].data]

\* webhooks.map(formatExternalWebhook).filter(s => s !== undefined)
MapFilter(webhooks) ==
  LET mapped == [i \in 1..Len(webhooks) |-> formatExternalWebhook(webhooks[i])]
      filtered == SelectSeq(mapped, LAMBDA s : s # undefined)
  IN [i \in 1..Len(filtered) |-> filtered[i].data]

RECURSIVE LoggedBy(_)
\* the logger.error entries the map pass writes, in order
LoggedBy(webhooks) ==
  IF webhooks = <<>> THEN <<>>
  ELSE loggerError(Head(webhooks)) \o LoggedBy(Tail(webhooks))

HandlerStartNoTeamCheck ==
  /\ req.pc = "handler"
  /\ req' = [req EXCEPT !.pc = "awaitFind", !.queries = @ + 1]
  /\ UNCHANGED <<db, log, fmt, layoutVars>>

\* Lines 196-203: no team -> 403; otherwise the query is issued and the
\* handler awaits it.
HandlerStart ==
  /\ req.pc = "handler"
  /\ IF req.team = NoTeam
     THEN req' = [req EXCEPT !.pc = "done", !.status = 403, !.sent = 1]
     ELSE req' = [req EXCEPT !.pc = "awaitFind", !.queries = @ + 1]
  /\ UNCHANGED <<db, log, fmt, layoutVars>>

\* Lines 201-207: the query resolves and the filtered list is sent.
FindResolves ==
  /\ req.pc = "awaitFind"
  /\ LET webhooks == Find(toString(req.team))
     IN /\ Len(log) + Len(LoggedBy(webhooks)) <= MaxLog
        /\ log' = log \o LoggedBy(webhooks)
        /\ req' = [req EXCEPT !.pc = "done", !.status = 200, !.sent = @ + 1,
                              !.hasData = TRUE, !.data = MapFilter(webhooks),
                              !.webhooks = webhooks]
  /\ UNCHANGED <<db, fmt, layoutVars>>

FindRejectsAndResponds ==
  /\ req.pc = "awaitFind"
  /\ req' = [req EXCEPT !.pc = "done", !.nextCalls = @ + 1, !.status = 200,
                        !.sent = @ + 1, !.hasData = TRUE]
  /\ UNCHANGED <<db, log, fmt, layoutVars>>

\* Lines 208-210: the query rejects and the error goes to next.
FindRejects ==
  /\ req.pc = "awaitFind"
  /\ req' = [req EXCEPT !.pc = "done", !.nextCalls = @ + 1]
  /\ UNCHANGED <<db, log, fmt, layoutVars>>

(***************************************************************************)
(* The formatter on its own: fmt holds one document and the results of the *)
(* invocations made on it so far.                                          *)
(***************************************************************************)
NoFormat == [doc |-> EmptyObject, results |-> <<>>]

\* One invocation of formatExternalWebhook(fmt.doc).
Format ==
  /\ Len(fmt.results) < MaxCalls
  /\ Len(log) < MaxLog
  /\ fmt' = [fmt EXCEPT !.results = Append(@, formatExternalWebhook(fmt.doc))]
  /\ log' = log \o loggerError(fmt.doc)
  /\ UNCHANGED <<db, req, layoutVars>>

\* An invocation on another document, between two invocations on fmt.doc.
FormatOther ==
  /\ Len(log) < MaxLog
  /\ \E shape \in PoolShapes :
       log' = log \o loggerError(Doc("id2", "teamA", shape[1], shape[2]))
  /\ UNCHANGED <<db, req, fmt, layoutVars>>

(***************************************************************************)
(* PageWrapper (layout.tsx)                                                *)
(***************************************************************************)
Absent == "absent"
Pages == {"SearchPage", "ChartPage", "SessionsPage"}

\* useLocalStorage(key, initialValue), the value the hook starts with: the
\* persisted one, the initial value when nothing is persisted.
useLocalStorage(initialValue) ==
  IF localStorage = Absent THEN initialValue ELSE localStorage

NotMounted ==
  [mounted |-> FALSE, hasMounted |-> FALSE, bannerState |-> Absent,
   className |-> Absent, banner |-> FALSE, page |-> Absent, mounts |-> 0,
   dismissed |-> FALSE]

bannerIsActiveNoMountCheck(hasMounted, bannerState) ==
  IS_CLICKHOUSE_BUILD /\ bannerState = "opened"

\* Lines 28-29.
bannerIsActive(hasMounted, bannerState) ==
  hasMounted /\ IS_CLICKHOUSE_BUILD /\ bannerState = "opened"

\* Lines 31-70: what one render of PageWrapper puts on the page.
Render(u) ==
  [u EXCEPT
     !.className = IF bannerIsActive(u.hasMounted, u.bannerState)
                   THEN "app-layout-with-banner" ELSE "app-layout",
     !.banner = bannerIsActive(u.hasMounted, u.bannerState)]

\* withAppNav(page): first render of the layout, before its effects run.
Mount ==
  /\ ~ui.mounted
  /\ ui.mounts < MaxMounts
  /\ \E page \in Pages :
       ui' = Render([NotMounted EXCEPT
                       !.mounted = TRUE,
                       !.hasMounted = FALSE,
                       !.bannerState = useLocalStorage("opened"),
                       !.page = page,
                       !.mounts = ui.mounts + 1,
                       !.dismissed = ui.dismissed])
  /\ UNCHANGED <<db, log, req, fmt, localStorage, IS_CLICKHOUSE_BUILD>>

\* Line 27: the mount effect, then the render it causes.
MountEffect ==
  /\ ui.mounted
  /\ ~ui.hasMounted
  /\ ui' = Render([ui EXCEPT !.hasMounted = TRUE])
  /\ UNCHANGED <<db, log, req, fmt, localStorage, IS_CLICKHOUSE_BUILD>>

\* Lines 51-57: the dismiss button, which exists only inside the banner.
Dismiss ==
  /\ ui.mounted
  /\ ui.banner
  /\ localStorage' = "closed"
  /\ ui' = Render([ui EXCEPT !.bannerState = "closed", !.dismissed = TRUE])
  /\ UNCHANGED <<db, log, req, fmt, IS_CLICKHOUSE_BUILD>>

\* Navigation between pages that share the layout keeps its state.
Navigate ==
  /\ ui.mounted
  /\ \E page \in Pages \ {ui.page} : ui' = Render([ui EXCEPT !.page = page])
  /\ UNCHANGED <<db, log, req, fmt, localStorage, IS_CLICKHOUSE_BUILD>>

\* The layout is left (a page without it, a reload): its state is dropped.
Unmount ==
  /\ ui.mounted
  /\ ui' = [NotMounted EXCEPT !.mounts = ui.mounts, !.dismissed = ui.dismissed]
  /\ UNCHANGED <<db, log, req, fmt, localStorage, IS_CLICKHOUSE_BUILD>>

(***************************************************************************)
(* Specifications                                                          *)
(***************************************************************************)
NoLayout ==
  /\ localStorage = Absent
  /\ ui = NotMounted
  /\ IS_CLICKHOUSE_BUILD = FALSE

Init ==
  /\ db = <<>>
  /\ log = <<>>
  /\ req = NoRequest
  /\ fmt = NoFormat
  /\ NoLayout

Next ==
  \/ WebhookCreate
  \/ Authenticate
  \/ HandlerStart
  \/ FindResolves
  \/ FindRejects

Spec == Init /\ [][Next]_vars

InitFormat ==
  /\ db = <<>>
  /\ log = <<>>
  /\ req = NoRequest
  /\ \E d \in AllDocs : fmt = [doc |-> d, results |-> <<>>]
  /\ NoLayout

NextFormat ==
  \/ Format
  \/ FormatOther

SpecFormat == InitFormat /\ [][NextFormat]_vars

InitLayout ==
  /\ db = <<>>
  /\ log = <<>>
  /\ req = NoRequest
  /\ fmt = NoFormat
  /\ localStorage \in {Absent, "opened", "closed"}
  /\ ui = NotMounted
  /\ IS_CLICKHOUSE_BUILD \in BOOLEAN

NextLayout ==
  \/ Mount
  \/ MountEffect
  \/ Dismiss
  \/ Navigate
  \/ Unmount

SpecLayout == InitLayout /\ [][NextLayout]_vars

(***************************************************************************)
(* Properties of the formatter (SpecFormat)                                *)
(***************************************************************************)
\* What storage holds, read off the stored document itself.
StoredService(doc) ==
  IF "service" \in DOMAIN doc THEN doc["service"].s ELSE Absent

WellFormed(doc) ==
  /\ RequiredStoredKeys \subseteq DOMAIN doc
  /\ StoredService(doc) \in {"slack", "incidentio", "generic"}

PermittedOptional(doc) ==
  IF StoredService(doc) = "generic"
  THEN {"url", "description", "headers", "body"}
  ELSE {"url", "description"}

Results == {fmt.results[i] : i \in 1..Len(fmt.results)}

\* C1: the view of a stored Slack or IncidentIO webhook never has a headers
\* or a body key, whatever storage holds for them.
C1_NoHeadersOrBodyForSlackAndIncidentIO ==
  StoredService(fmt.doc) \in {"slack", "incidentio"} =>
    \A r \in Results : DOMAIN r.data \cap {"headers", "body"} = {}

\* A Slack webhook stored with headers and body has been formatted to a view.
C1_Witness ==
  /\ StoredService(fmt.doc) = "slack"
  /\ {"headers", "body"} \subseteq DOMAIN fmt.doc
  /\ \E r \in Results : r.defined

\* C2: the keys of a view are among the fields its service variant permits,
\* so no team, _id or __v, and id is the stored identifier as a string.
C2_ViewWithinWhitelist ==
  \A r \in Results :
    r.defined =>
      /\ DOMAIN r.data \subseteq
           {"id", "name", "service", "url", "description", "createdAt",
            "updatedAt"}
           \cup (IF StoredService(fmt.doc) = "generic"
                 THEN {"headers", "body"} ELSE {})
      /\ "id" \in DOMAIN r.data
      /\ r.data["id"].t = "String"
      /\ r.data["id"].s = fmt.doc["_id"].s

\* A Generic webhook with every path stored has been formatted to a view.
C2_Witness ==
  /\ StoredService(fmt.doc) = "generic"
  /\ DOMAIN fmt.doc = StoredKeys
  /\ \E r \in Results : r.defined /\ "headers" \in DOMAIN r.data

\* C3: a well-formed stored webhook formats to a view in which each optional
\* field its variant permits is present exactly when it is stored, with the
\* stored value, and is never null.
C3_OptionalityPreserved ==
  WellFormed(fmt.doc) =>
    \A r \in Results :
      /\ r.defined
      /\ \A k \in PermittedOptional(fmt.doc) :
           /\ k \in DOMAIN r.data <=> k \in DOMAIN fmt.doc
           /\ k \in DOMAIN r.data =>
                /\ r.data[k].t # "Null"
                /\ r.data[k].s = fmt.doc[k].s
                /\ r.data[k].m = fmt.doc[k].m

\* A Generic webhook stored with a body and without headers has been
\* formatted.
C3_Witness ==
  /\ WellFormed(fmt.doc)
  /\ StoredService(fmt.doc) = "generic"
  /\ "body" \in DOMAIN fmt.doc
  /\ "headers" \notin DOMAIN fmt.doc
  /\ "url" \notin DOMAIN fmt.doc
  /\ Len(fmt.results) >= 1

Range(seq) == {seq[i] : i \in 1..Len(seq)}

\* The request has been answered with the list.
Listed == req.pc = "done" /\ req.status = 200

Malformed(webhooks) == {i \in 1..Len(webhooks) : ~WellFormed(webhooks[i])}

\* The positions in data of the view that carries the id of doc.
PositionsOf(doc, data) ==
  {p \in 1..Len(data) :
     "id" \in DOMAIN data[p] /\ "_id" \in DOMAIN doc /\ data[p]["id"].s = doc["_id"].s}

\* C4: when the query has resolved, the answer is 200 and nothing went to
\* next; a retrieved record that lacks a required field or has an undeclared
\* service has no view in data, every other retrieved record has one, and data
\* is as long as the retrieved list less its malformed records.
C4_MalformedRecordsDropped ==
  (req.pc = "done" /\ req.queries = 1 /\ req.nextCalls = 0) =>
    /\ req.status = 200
    /\ req.hasData
    /\ Len(req.data) = Len(req.webhooks) - Cardinality(Malformed(req.webhooks))
    /\ \A i \in 1..Len(req.webhooks) :
         IF i \in Malformed(req.webhooks)
         THEN PositionsOf(req.webhooks[i], req.data) = {}
         ELSE PositionsOf(req.webhooks[i], req.data) # {}

\* Three records were retrieved, two of them malformed in different ways, and
\* the list holds the one valid sibling.
C4_Witness ==
  /\ Listed
  /\ Len(req.webhooks) = 3
  /\ Cardinality(Malformed(req.webhooks)) = 2
  /\ \E i \in Malformed(req.webhooks) : "name" \notin DOMAIN req.webhooks[i]
  /\ \E i \in Malformed(req.webhooks) : StoredService(req.webhooks[i]) = UnknownService
  /\ Len(req.data) = 1

OwnedBy(team) == {doc \in Range(db) : doc["team"].s = team}
AskingTeam == req.team.s

\* C5: when the list is sent, no entry of data carries the id of a record of
\* another team, and every well-formed record of the asking team has its
\* view in data.
C5_TeamScoped ==
  [][(req.pc = "awaitFind" /\ req'.pc = "done" /\ req'.status = 200) =>
       /\ \A t \in Teams \ {AskingTeam} : \A doc \in OwnedBy(t) :
            PositionsOf(doc, req'.data) = {}
       /\ \A doc \in OwnedBy(AskingTeam) :
            WellFormed(doc) => PositionsOf(doc, req'.data) # {}]_vars

\* teamA was sent its list while teamB holds a well-formed record too.
C5_Witness ==
  /\ Listed
  /\ AskingTeam = "teamA"
  /\ Len(req.data) >= 1
  /\ \E doc \in OwnedBy("teamB") : WellFormed(doc)
  /\ Len(req.webhooks) < Len(db)

\* C6: without a valid credential the request ends 401 with no data; with a
\* user that has no team it ends 403 with no data and no query; otherwise,
\* when the query succeeded, it ends 200 with a data list, empty when nothing
\* was retrieved.  Data and queries occur only for a user with a team.
C6_StatusByCredential ==
  /\ (req.hasData \/ req.queries > 0) =>
       (req.cred \in DOMAIN Users /\ Users[req.cred] # NoTeam)
  /\ req.pc = "done" =>
       IF req.cred \notin DOMAIN Users
       THEN req.status = 401 /\ ~req.hasData /\ req.queries = 0
       ELSE IF Users[req.cred] = NoTeam
       THEN req.status = 403 /\ ~req.hasData /\ req.queries = 0
       ELSE req.nextCalls = 0 =>
              /\ req.status = 200
              /\ req.hasData
              /\ (req.webhooks = <<>> => req.data = <<>>)

\* A user without a team was answered 403 while the collection holds records.
C6_Witness ==
  /\ req.pc = "done"
  /\ req.cred = "keyNoTeam"
  /\ req.status = 403
  /\ db # <<>>

\* C7: the views of two well-formed retrieved records stand in data in the
\* order the records were retrieved.
C7_OrderPreserved ==
  Listed =>
    \A i, j \in 1..Len(req.webhooks) :
      (i < j /\ WellFormed(req.webhooks[i]) /\ WellFormed(req.webhooks[j])) =>
        \E p \in PositionsOf(req.webhooks[i], req.data) :
          \E q \in PositionsOf(req.webhooks[j], req.data) : p < q

\* Two well-formed records with a malformed one between them were listed.
C7_Witness ==
  /\ Listed
  /\ Len(req.webhooks) = 3
  /\ Malformed(req.webhooks) = {2}
  /\ Len(req.data) = 2

\* C8: a request that reached the handler ends in exactly one of: 403, 200
\* with the list, the error handed to next.  When the query failed nothing
\* was sent, next was called once and the query was issued once.
C8_SingleOutcome ==
  /\ req.sent <= 1 /\ req.nextCalls <= 1 /\ req.queries <= 1
  /\ (req.pc = "done" /\ req.cred \in DOMAIN Users) =>
       /\ req.sent + req.nextCalls = 1
       /\ req.status \in {403, 200, 0}
       /\ req.status = 403 => (req.sent = 1 /\ ~req.hasData)
       /\ req.status = 200 => (req.sent = 1 /\ req.hasData)
       /\ req.nextCalls = 1 =>
            (req.sent = 0 /\ req.status = 0 /\ ~req.hasData /\ req.queries = 1)

\* The query of a request for a team with stored records failed.
C8_Witness ==
  /\ req.pc = "done"
  /\ req.nextCalls = 1
  /\ OwnedBy(AskingTeam) # {}

(***************************************************************************)
(* Property of the layout banner (SpecLayout)                              *)
(***************************************************************************)
\* C10: the banner and the with-banner class are rendered only when the
\* component has mounted, the build flag is set and the banner state is
\* opened; a persisted closed is never changed by the component, and while
\* it is persisted no banner is rendered, also after a remount.
C10_BannerOnlyWhenActiveAndNeverAfterDismiss ==
  /\ [](/\ (ui.banner \/ ui.className = "app-layout-with-banner") =>
            (ui.hasMounted /\ IS_CLICKHOUSE_BUILD /\ ui.bannerState = "opened")
        /\ (localStorage = "closed" \/ ui.dismissed) => ~ui.banner
        /\ ui.dismissed => localStorage = "closed")
  /\ [][localStorage = "closed" => localStorage' = "closed"]_vars

\* The banner was dismissed and the layout has been mounted again and has
\* run its mount effect.
C10_Witness ==
  /\ ui.dismissed
  /\ ui.mounts >= 2
  /\ ui.hasMounted
  /\ IS_CLICKHOUSE_BUILD

====
